---- MODULE Spec2Model ----
(***************************************************************************)
(* educhain-mcp: the content pipeline (src/src/generate_content.py), the   *)
(* flat-file cache it writes, and the MCP server that re-serves the cache  *)
(* (src/src/mcp_server.py).                                                *)
(*                                                                         *)
(* Python values are modelled as follows: a dict is a function from its    *)
(* keys (strings) to its values, a list is a sequence, str and int are     *)
(* strings and integers.  Where a value of unknown type is handled (the    *)
(* document parsed from a cache file), it is wrapped as [ty, v].  A local  *)
(* list of dict literals is a heap of objects addressed 1..n, and a list   *)
(* built from it by * and slicing is a list of addresses, so that the       *)
(* aliasing of the shallow list operations of Python is kept.              *)
(***************************************************************************)
EXTENDS Integers, Sequences, FiniteSets, TLC

(* ------------------------------ bounds -------------------------------- *)

\* largest count (num, num_questions, num_cards) a request carries
MaxCount == 7
\* largest value of the wall clock that stamps generated_at
MaxClock == 1
\* largest number of items the external generation capability returns
MaxExt == 3

(* --------------------------- program constants ------------------------ *)

DEFAULT_TOPIC == "Python Programming Basics"
OTHER_TOPIC == "Data Structures"
PRIMARY == "EduChain with Google Gemini"
FALLBACK == "Fallback System"
NOTE_PIPELINE == "This is fallback content due to API failure."
NOTE_SERVER == "This is fallback content. Run generate_content.py for AI-generated content."

Topics == {DEFAULT_TOPIC, OTHER_TOPIC}
Counts == 0..MaxCount
Durations == {"60 minutes", "90 minutes"}
GradeLevels == {"Beginner", "Advanced"}
Kinds == {"mcqs", "lesson_plan", "flashcards"}
Modules == {"generate_content", "mcp_server"}

(* --------------------------- Python primitives ------------------------ *)

Min(a, b) == IF a <= b THEN a ELSE b
Max(a, b) == IF a >= b THEN a ELSE b
Range(s) == {s[i] : i \in DOMAIN s}

\* a // b for b > 0 (floor division)
floordiv(a, b) == a \div b

\* list * k : the elements repeated end to end, the same objects each time
list_mul(list, k) ==
    IF k <= 0 THEN <<>>
    ELSE [i \in 1..(Len(list) * k) |-> list[((i - 1) % Len(list)) + 1]]

\* list[:n]
list_head(list, n) ==
    IF n >= 0 THEN SubSeq(list, 1, Min(n, Len(list)))
    ELSE SubSeq(list, 1, Max(Len(list) + n, 0))

\* d.update(e), and d[k] = v as d.update({k: v})
dict_update(d, e) ==
    [k \in (DOMAIN d) \cup (DOMAIN e) |-> IF k \in DOMAIN e THEN e[k] ELSE d[k]]

\* the addresses of the objects of a list literal
addresses(objects) == [i \in 1..Len(objects) |-> i]

\* the list a list of addresses denotes
deref(heap, refs) == [i \in 1..Len(refs) |-> heap[refs[i]]]

(* --------------------------- fallback generator ----------------------- *)

\* The sample texts are those of the source without their backquote
\* characters, which a TLA+ string cannot hold.

sample_mcqs ==
    << [id |-> 1,
        question |-> "What is the correct way to assign a value to a variable in Python?",
        options |-> <<"x = 5", "x := 5", "x == 5", "x <- 5">>,
        correct_answer |-> "x = 5",
        explanation |-> "In Python, a variable is assigned a value using the '=' operator, e.g., x = 5."],
       [id |-> 2,
        question |-> "What does the print() function do in Python?",
        options |-> <<"Saves a file", "Displays output", "Creates a loop", "Defines a variable">>,
        correct_answer |-> "Displays output",
        explanation |-> "The print() function outputs text or values to the console."],
       [id |-> 3,
        question |-> "What is the output of: for i in range(3): print(i)?",
        options |-> <<"0, 1, 2", "1, 2, 3", "0, 1, 2, 3", "1, 2">>,
        correct_answer |-> "0, 1, 2",
        explanation |-> "The range(3) generates numbers from 0 to 2, which are printed by the loop."],
       [id |-> 4,
        question |-> "Which data type is used for text in Python?",
        options |-> <<"int", "float", "str", "bool">>,
        correct_answer |-> "str",
        explanation |-> "The 'str' data type is used for text (strings) in Python."],
       [id |-> 5,
        question |-> "What symbol is used for assignment in Python?",
        options |-> <<"==", "=", ":", "+">>,
        correct_answer |-> "=",
        explanation |-> "The '=' symbol assigns a value to a variable in Python."] >>

sample_flashcards ==
    << [id |-> 1,
        front |-> "How do you assign a value to a variable in Python?",
        back |-> "Use the '=' operator, e.g., x = 5.",
        category |-> "Variables"],
       [id |-> 2,
        front |-> "What does the print() function do?",
        back |-> "It displays text or values to the console, e.g., print('Hello').",
        category |-> "Output"],
       [id |-> 3,
        front |-> "What is the syntax for a basic for loop in Python?",
        back |-> "for i in range(n):, e.g., for i in range(3): print(i).",
        category |-> "Loops"] >>

\* sample * (num // len(sample) + 1), then [:num]: a list of addresses
cycle_sample(sample, num) ==
    list_head(list_mul(addresses(sample), floordiv(num, Len(sample)) + 1), num)

\* one iteration of: for i, q in enumerate(questions, 1): q[id] = i
set_id(heap, refs, i) == [heap EXCEPT ![refs[i]].id = i]

\* the whole loop, from iteration i on
RECURSIVE renumber(_, _, _)
renumber(heap, refs, i) ==
    IF i > Len(refs) THEN heap ELSE renumber(set_id(heap, refs, i), refs, i + 1)

\* the dict the MCQ fallback returns, given the list it has built
fallback_mcqs_bundle(topic, num, questions, now, note) ==
    [topic |-> topic, questions |-> questions, total_questions |-> num,
     generated_at |-> now, generated_by |-> FALLBACK, note |-> note]

\* the dict the flashcard fallback returns, given the list it has built
fallback_flashcards_bundle(topic, num, flashcards, now, note) ==
    [topic |-> topic, flashcards |-> flashcards, count |-> num,
     difficulty |-> "Simple", generated_at |-> now, generated_by |-> FALLBACK,
     note |-> note]

generate_fallback_mcqs(topic, num, now, note) ==
    LET refs == cycle_sample(sample_mcqs, num)
        heap == renumber(sample_mcqs, refs, 1)
    IN  fallback_mcqs_bundle(topic, num, deref(heap, refs), now, note)

generate_fallback_flashcards(topic, num, now, note) ==
    LET refs == cycle_sample(sample_flashcards, num)
        heap == renumber(sample_flashcards, refs, 1)
    IN  fallback_flashcards_bundle(topic, num, deref(heap, refs), now, note)

generate_fallback_lesson_plan(topic, duration, grade_level, now, note) ==
    [title |-> <<"Introduction to ", topic>>,
     topic |-> topic,
     duration |-> duration,
     grade_level |-> grade_level,
     learning_objectives |->
        << <<"Understand basic concepts of ", topic>>,
           <<"Write simple programs using variables and loops">>,
           <<"Use the print function to display output">> >>,
     lesson_structure |->
        << [phase |-> "Introduction", duration |-> "10 minutes",
            activities |-> << <<"Overview of ", topic, " and its importance">> >>],
           [phase |-> "Main Content", duration |-> "40 minutes",
            activities |-> << <<"Explain variables and print function">>,
                              <<"Practice writing simple for loops">> >>] >>,
     generated_at |-> now,
     generated_by |-> FALLBACK,
     note |-> note]

\* the note written by each copy of the fallback generator
fallback_note(module) ==
    IF module = "generate_content" THEN NOTE_PIPELINE ELSE NOTE_SERVER

(* ------------------------ the content pipeline ------------------------ *)

\* what a function body does: return a value, or raise
Return(v) == [raised |-> FALSE, value |-> v]
Raise(e) == [raised |-> TRUE, value |-> e]

\* What the external generation capability can do with one call: return a
\* result within the timeout, raise, or not return before the timeout.
ExtQuestion(i) ==
    [question |-> <<"external question", i>>, options |-> <<"a", "b", "c", "d">>,
     answer |-> "a", explanation |-> "external explanation"]
ExtCard(i, categorised) ==
    IF categorised
    THEN [question |-> <<"external term", i>>, answer |-> "external definition",
          category |-> "External"]
    ELSE [question |-> <<"external term", i>>, answer |-> "external definition"]
ExtPhase(i) ==
    [phase |-> <<"external phase", i>>, duration |-> "5 minutes", activities |-> <<>>]

\* the object an external call returns, k items long
ExtResult(kind, k, categorised) ==
    CASE kind = "mcqs" -> [questions |-> [i \in 1..k |-> ExtQuestion(i)]]
      [] kind = "flashcards" -> [i \in 1..k |-> ExtCard(i, categorised)]
      [] kind = "lesson_plan" ->
            [title |-> "external lesson", topic |-> "external topic",
             lesson_structure |-> [i \in 1..k |-> ExtPhase(i)]]

ExtOk(value) == [outcome |-> "ok", value |-> value]
ExtRaise == [outcome |-> "raise", value |-> <<>>]
ExtTimeout == [outcome |-> "timeout", value |-> <<>>]

\* result.model_dump(): the flat mapping of an external result
model_dump(result) == result

\* generate_mcqs without its handler for Exception: the exception of the
\* external call leaves the body
generate_mcqs_unhandled(topic, num, ext, now) ==
    CASE ext.outcome = "ok" ->
            Return(dict_update(model_dump(ext.value),
                       [topic |-> topic, total_questions |-> num,
                        generated_at |-> now, generated_by |-> PRIMARY]))
      [] ext.outcome = "timeout" ->
            Return(generate_fallback_mcqs(topic, num, now, NOTE_PIPELINE))
      [] ext.outcome = "raise" -> Raise("Exception")

\* generate_mcqs with a timeout left to the retry wrapper
generate_mcqs_retry_on_timeout(topic, num, ext, now) ==
    CASE ext.outcome = "ok" ->
            Return(dict_update(model_dump(ext.value),
                       [topic |-> topic, total_questions |-> num,
                        generated_at |-> now, generated_by |-> PRIMARY]))
      [] ext.outcome = "timeout" -> Raise("TimeoutError")
      [] ext.outcome = "raise" ->
            Return(generate_fallback_mcqs(topic, num, now, NOTE_PIPELINE))

\* generate_mcqs, the decorated body: the try block and its two handlers
generate_mcqs(topic, num, ext, now) ==
    CASE ext.outcome = "ok" ->
            Return(dict_update(model_dump(ext.value),
                       [topic |-> topic, total_questions |-> num,
                        generated_at |-> now, generated_by |-> PRIMARY]))
      [] ext.outcome = "timeout" ->
            Return(generate_fallback_mcqs(topic, num, now, NOTE_PIPELINE))
      [] ext.outcome = "raise" ->
            Return(generate_fallback_mcqs(topic, num, now, NOTE_PIPELINE))

\* generate_lesson_plan, the decorated body
generate_lesson_plan(topic, duration, grade_level, ext, now) ==
    CASE ext.outcome = "ok" ->
            Return(dict_update(model_dump(ext.value),
                       [topic |-> topic, duration |-> duration,
                        grade_level |-> grade_level,
                        generated_at |-> now, generated_by |-> PRIMARY]))
      [] ext.outcome = "timeout" ->
            Return(generate_fallback_lesson_plan(topic, duration, grade_level, now,
                       NOTE_PIPELINE))
      [] ext.outcome = "raise" ->
            Return(generate_fallback_lesson_plan(topic, duration, grade_level, now,
                       NOTE_PIPELINE))

\* the list comprehension over the cards the external call returned
flashcards_of(cards) ==
    [i \in 1..Len(cards) |->
        [id |-> i,
         front |-> cards[i].question,
         back |-> cards[i].answer,
         category |-> IF "category" \in DOMAIN cards[i]
                      THEN cards[i].category ELSE "General"]]

\* generate_flashcards, the decorated body
generate_flashcards(topic, num, ext, now) ==
    CASE ext.outcome = "ok" ->
            Return([topic |-> topic, flashcards |-> flashcards_of(ext.value),
                    count |-> num, difficulty |-> "Simple",
                    generated_at |-> now, generated_by |-> PRIMARY])
      [] ext.outcome = "timeout" ->
            Return(generate_fallback_flashcards(topic, num, now, NOTE_PIPELINE))
      [] ext.outcome = "raise" ->
            Return(generate_fallback_flashcards(topic, num, now, NOTE_PIPELINE))

\* one execution of the body of the generate function of a kind
generate_body(a, ext, now) ==
    CASE a.kind = "mcqs" -> generate_mcqs(a.topic, a.num, ext, now)
      [] a.kind = "lesson_plan" ->
            generate_lesson_plan(a.topic, a.duration, a.grade_level, ext, now)
      [] a.kind = "flashcards" -> generate_flashcards(a.topic, a.num, ext, now)

\* @retry(stop=stop_after_attempt(3), ...): the attempts the wrapper allows
stop_after_attempt == 3

\* The retrying wrapper around a generate function, applied to the outcome of
\* the attempt just made: a returned value is the result of the call; a raised
\* exception leads to another attempt, or after the last one to RetryError.
retry(g, ext, outcome) ==
    LET h == Append(g.history, ext.outcome) IN
    IF ~outcome.raised
    THEN [g EXCEPT !.pc = "done", !.history = h, !.result = outcome.value]
    ELSE IF g.attempt >= stop_after_attempt
         THEN [g EXCEPT !.pc = "raised", !.history = h]
         ELSE [g EXCEPT !.attempt = g.attempt + 1, !.history = h]

(* ------------------------- values of unknown type ---------------------- *)

\* A value whose Python type the code does not know (the document parsed
\* from a cache file): its type and its value.  A str is its characters.
PyDict(d) == [ty |-> "dict", v |-> d]
PyList(l) == [ty |-> "list", v |-> l]
PyStr(chars) == [ty |-> "str", v |-> chars]
PyInt(n) == [ty |-> "int", v |-> n]
PyNone == [ty |-> "NoneType", v |-> <<>>]

EmptyDict == [k \in {} |-> 0]
ERROR_KEY == <<"e", "r", "r", "o", "r">>

\* d.get(key, default)
dict_get(d, key, default) == IF key \in DOMAIN d THEN d[key] ELSE default

\* bool(x)
truthy(x) ==
    CASE x.ty = "dict" -> DOMAIN x.v # {}
      [] x.ty = "list" -> Len(x.v) > 0
      [] x.ty = "str" -> Len(x.v) > 0
      [] x.ty = "int" -> x.v # 0
      [] x.ty = "NoneType" -> FALSE

\* sub in s, for two str
substring(sub, s) ==
    \E i \in 0..(Len(s) - Len(sub)) : SubSeq(s, i + 1, i + Len(sub)) = sub

\* "error" in x: a key of a dict, an element of a list, a substring of a str,
\* and TypeError for a value that is no container
contains_error(x) ==
    CASE x.ty = "dict" -> Return("error" \in DOMAIN x.v)
      [] x.ty = "list" -> Return(\E i \in 1..Len(x.v) : x.v[i] = "error")
      [] x.ty = "str" -> Return(substring(ERROR_KEY, x.v))
      [] OTHER -> Raise("TypeError")

\* x[key] = value for each key of e, key a str: TypeError unless x is a dict
set_items(x, e) ==
    IF x.ty = "dict" THEN Return(PyDict(dict_update(x.v, e))) ELSE Raise("TypeError")

(* --------------------------- the cache files --------------------------- *)

\* os.path on absolute paths, a path being the sequence of its components
dirname(path) == SubSeq(path, 1, Len(path) - 1)
join(path, name) == Append(path, name)

\* the directory the repository is checked out in
REPO == <<"repo">>

\* generate_content.py: __file__ and the paths derived from it
pipeline_FILE == REPO \o <<"src", "generate_content.py">>
pipeline_BASE_DIR == dirname(pipeline_FILE)
pipeline_OUTPUTS_DIR == join(pipeline_BASE_DIR, "outputs")
pipeline_MCQS_PATH == join(pipeline_OUTPUTS_DIR, "python_mcqs.json")
pipeline_LESSON_PLAN_PATH == join(pipeline_OUTPUTS_DIR, "python_lesson_plan.json")
pipeline_FLASHCARDS_PATH == join(pipeline_OUTPUTS_DIR, "python_flashcards.json")

\* mcp_server.py: __file__ and the paths derived from it
server_FILE == REPO \o <<"src", "mcp_server.py">>
server_BASE_DIR == dirname(server_FILE)
server_PARENT_DIR == dirname(server_BASE_DIR)
server_OUTPUTS_DIR == join(server_PARENT_DIR, "outputs")
server_MCQS_PATH == join(server_OUTPUTS_DIR, "python_mcqs.json")
server_LESSON_PLAN_PATH == join(server_OUTPUTS_DIR, "python_lesson_plan.json")
server_FLASHCARDS_PATH == join(server_OUTPUTS_DIR, "python_flashcards.json")

\* the file the pipeline saves a kind to, and the file the server loads it from
pipeline_path(kind) ==
    CASE kind = "mcqs" -> pipeline_MCQS_PATH
      [] kind = "lesson_plan" -> pipeline_LESSON_PLAN_PATH
      [] kind = "flashcards" -> pipeline_FLASHCARDS_PATH
server_path(kind) ==
    CASE kind = "mcqs" -> server_MCQS_PATH
      [] kind = "lesson_plan" -> server_LESSON_PLAN_PATH
      [] kind = "flashcards" -> server_FLASHCARDS_PATH

Paths == {pipeline_path(k) : k \in Kinds} \cup {server_path(k) : k \in Kinds}

\* json.dumps / json.dump: the text of a value; and a text that is no JSON
json_dumps(value) == [json |-> TRUE, doc |-> value]
NotJson == [json |-> FALSE, doc |-> PyNone]

\* a reader that takes what it can recover from any text
json_load_lenient(text) == Return(text.doc)

\* json.load: the value of a text, or JSONDecodeError
json_load(text) == IF text.json THEN Return(text.doc) ELSE Raise("JSONDecodeError")

\* what a path holds: nothing, a file with a text, or a file that cannot be read
Absent == [st |-> "absent", text |-> NotJson]
File(text) == [st |-> "file", text |-> text]
Unreadable == [st |-> "unreadable", text |-> NotJson]

\* load_json_file without the test for the file and without its handlers:
\* nothing stands for the document where there is none
load_json_file_unguarded(files, file_path) ==
    LET f == files[file_path] IN
    IF f.st = "file" /\ f.text.json THEN f.text.doc ELSE PyNone

\* load_json_file: the parsed document, or an error descriptor
load_json_file(files, file_path) ==
    LET f == files[file_path] IN
    CASE f.st = "absent" ->
            PyDict([error |-> <<"File not found: ", file_path>>,
                  suggestion |-> "Please run generate_content.py first to create the required files."])
      [] f.st = "unreadable" ->
            PyDict([error |-> <<"Failed to load ", file_path>>, details |-> "OSError"])
      [] f.st = "file" ->
            LET data == json_load(f.text) IN
            IF data.raised
            THEN PyDict([error |-> <<"Invalid JSON format in ", file_path>>,
                       details |-> "JSONDecodeError"])
            ELSE data.value

\* the files after a call that writes data to filename.  io is what the file
\* system does: the write succeeds; makedirs or open fails and the file is
\* untouched; or the dump fails after open has truncated the file.
written(files, data, filename, io) ==
    CASE io = "ok" -> [files EXCEPT ![filename] = File(json_dumps(PyDict(data)))]
      [] io = "open_fails" -> files
      [] io = "dump_fails" -> [files EXCEPT ![filename] = File(NotJson)]

\* save_to_json without its try statement
save_to_json_unhandled(files, data, filename, io) ==
    [raised |-> io # "ok", value |-> written(files, data, filename, io)]

\* save_to_json: it returns nothing, and every failure is caught and logged;
\* the value here is the files after the call
save_to_json(files, data, filename, io) ==
    Return(written(files, data, filename, io))

\* save_json_file of the server module: the same, returning whether it wrote;
\* no handler calls it
save_json_file(files, data, file_path, io) ==
    [raised |-> FALSE, value |-> written(files, data, file_path, io), wrote |-> io = "ok"]

SaveOutcomes == {"ok", "open_fails", "dump_fails"}

\* The same call step by step, as another process sees the file.
\* The empty text, and the text of value cut before its last members: the
\* chunks json.dump has written when a full buffer is flushed.  Neither parses.
EmptyText == [json |-> FALSE, doc |-> PyStr(<<>>)]
json_prefix(value) ==
    [json |-> FALSE,
     doc |-> PyDict([k \in DOMAIN value.v \ {"generated_by", "note"} |-> value.v[k]])]

\* open(filename, 'a'): what the file holds stays
open_a(files, filename) ==
    IF files[filename].st = "file" THEN files
    ELSE [files EXCEPT ![filename] = File(EmptyText)]

\* open(filename, 'w'): the file is there and empty
open_w(files, filename) == [files EXCEPT ![filename] = File(EmptyText)]

\* f.write: text at the end of what the file held when it was opened
file_write(files, filename, base, text) ==
    [files EXCEPT ![filename] =
        File(IF base.doc.ty = "str" /\ base = EmptyText THEN text ELSE NotJson)]

(* ------------------------------ the server ----------------------------- *)

\* existing_data and "error" not in existing_data
cache_hit(existing_data) ==
    IF ~truthy(existing_data) THEN Return(FALSE)
    ELSE LET c == contains_error(existing_data) IN
         IF c.raised THEN c ELSE Return(~c.value)

\* generate_mcqs_dynamic cutting the cached list down to the requested count
generate_mcqs_dynamic_truncating(files, topic, num_questions, now) ==
    LET fallback == Return(PyDict(generate_fallback_mcqs(topic, num_questions, now,
                                      NOTE_SERVER)))
    IN  IF topic = "Python Programming Basics"
        THEN LET existing_data == load_json_file(files, server_MCQS_PATH)
                 hit == cache_hit(existing_data)
             IN  IF hit.raised THEN hit
                 ELSE IF hit.value
                 THEN set_items(existing_data,
                          [requested_count |-> num_questions, generated_at |-> now,
                           questions |-> list_head(existing_data.v.questions,
                                                   num_questions)])
                 ELSE fallback
        ELSE fallback

generate_mcqs_dynamic(files, topic, num_questions, now) ==
    LET fallback == Return(PyDict(generate_fallback_mcqs(topic, num_questions, now,
                                      NOTE_SERVER)))
    IN  IF topic = "Python Programming Basics"
        THEN LET existing_data == load_json_file(files, server_MCQS_PATH)
                 hit == cache_hit(existing_data)
             IN  IF hit.raised THEN hit
                 ELSE IF hit.value
                 THEN set_items(existing_data,
                          [requested_count |-> num_questions, generated_at |-> now])
                 ELSE fallback
        ELSE fallback

\* generate_lesson_plan_dynamic looking at the cache before the topic
generate_lesson_plan_dynamic_cache_first(files, topic, duration, grade_level, now) ==
    LET fallback == Return(PyDict(generate_fallback_lesson_plan(topic, duration,
                                      grade_level, now, NOTE_SERVER)))
        existing_data == load_json_file(files, server_LESSON_PLAN_PATH)
        hit == cache_hit(existing_data)
    IN  IF hit.raised THEN hit
        ELSE IF hit.value
        THEN set_items(existing_data,
                 [duration |-> duration, grade_level |-> grade_level,
                  generated_at |-> now])
        ELSE fallback

generate_lesson_plan_dynamic(files, topic, duration, grade_level, now) ==
    LET fallback == Return(PyDict(generate_fallback_lesson_plan(topic, duration,
                                      grade_level, now, NOTE_SERVER)))
    IN  IF topic = "Python Programming Basics"
        THEN LET existing_data == load_json_file(files, server_LESSON_PLAN_PATH)
                 hit == cache_hit(existing_data)
             IN  IF hit.raised THEN hit
                 ELSE IF hit.value
                 THEN set_items(existing_data,
                          [duration |-> duration, grade_level |-> grade_level,
                           generated_at |-> now])
                 ELSE fallback
        ELSE fallback

generate_flashcards_dynamic(files, topic, num_cards, now) ==
    LET fallback == Return(PyDict(generate_fallback_flashcards(topic, num_cards, now,
                                      NOTE_SERVER)))
    IN  IF topic = "Python Programming Basics"
        THEN LET existing_data == load_json_file(files, server_FLASHCARDS_PATH)
                 hit == cache_hit(existing_data)
             IN  IF hit.raised THEN hit
                 ELSE IF hit.value
                 THEN set_items(existing_data,
                          [requested_count |-> num_cards, generated_at |-> now])
                 ELSE fallback
        ELSE fallback

\* [types.TextContent(type="text", text=json.dumps(data, indent=2))]
text_content(data) ==
    IF data.raised THEN data
    ELSE Return(<<[type |-> "text", text |-> json_dumps(data.value)]>>)

\* the defaults of arguments.get for the two counts
DEFAULT_NUM_QUESTIONS == 10
DEFAULT_NUM_CARDS == 10

handle_call_tool(files, name, arguments, now) ==
    CASE name = "generate_mcqs" ->
            text_content(generate_mcqs_dynamic(files,
                dict_get(arguments, "topic", "Python Programming Basics"),
                dict_get(arguments, "num_questions", DEFAULT_NUM_QUESTIONS), now))
      [] name = "generate_lesson_plan" ->
            text_content(generate_lesson_plan_dynamic(files,
                dict_get(arguments, "topic", "Python Programming Basics"),
                dict_get(arguments, "duration", "60 minutes"),
                dict_get(arguments, "grade_level", "Beginner"), now))
      [] name = "generate_flashcards" ->
            text_content(generate_flashcards_dynamic(files,
                dict_get(arguments, "topic", "Python Programming Basics"),
                dict_get(arguments, "num_cards", DEFAULT_NUM_CARDS), now))
      [] OTHER -> Raise("ValueError")

\* handle_read_resource answering as the operation of the kind does with its
\* default arguments
handle_read_resource_as_tool(files, uri) ==
    LET name == CASE uri = "educhain://mcqs/python" -> "generate_mcqs"
                  [] uri = "educhain://lesson-plan/python" -> "generate_lesson_plan"
                  [] uri = "educhain://flashcards/python" -> "generate_flashcards"
                  [] OTHER -> "none"
        answer == handle_call_tool(files, name, EmptyDict, 0)
    IN  IF answer.raised THEN answer ELSE Return(answer.value[1].text)

handle_read_resource(files, uri) ==
    CASE uri = "educhain://mcqs/python" ->
            Return(json_dumps(load_json_file(files, server_MCQS_PATH)))
      [] uri = "educhain://lesson-plan/python" ->
            Return(json_dumps(load_json_file(files, server_LESSON_PLAN_PATH)))
      [] uri = "educhain://flashcards/python" ->
            Return(json_dumps(load_json_file(files, server_FLASHCARDS_PATH)))
      [] OTHER -> Raise("ValueError")

\* The module-level objects of the server: server, logger and the path
\* constants.  No handler assigns any of them, so nothing is kept here.
NoGlobals == [name \in {} |-> ""]

\* A tools/call request as the server object hands it to handle_call_tool:
\* the answer, and what the handler leaves behind in the module-level objects
\* and in the files.  It assigns no global and opens no file for writing.
call_tool_memoising(globals, files, name, arguments, now) ==
    IF name \in DOMAIN globals
    THEN [resp |-> globals[name], mem |-> globals, files |-> files]
    ELSE LET answer == handle_call_tool(files, name, arguments, now)
         IN  [resp |-> answer, mem |-> (name :> answer) @@ globals, files |-> files]

call_tool_persisting(globals, files, name, arguments, now) ==
    LET answer == handle_call_tool(files, name, arguments, now)
        path == CASE name = "generate_mcqs" -> server_MCQS_PATH
                  [] name = "generate_lesson_plan" -> server_LESSON_PLAN_PATH
                  [] OTHER -> server_FLASHCARDS_PATH
    IN  [resp |-> answer, mem |-> globals,
         files |-> IF answer.raised THEN files
                   ELSE [files EXCEPT ![path] = File(answer.value[1].text)]]

call_tool(globals, files, name, arguments, now) ==
    [resp |-> handle_call_tool(files, name, arguments, now),
     mem |-> globals,
     files |-> files]

\* a resources/read request, likewise
read_resource(globals, files, uri) ==
    [resp |-> handle_read_resource(files, uri), mem |-> globals, files |-> files]

\* check_prerequisites: makedirs, then whether every cache file exists.
\* makedirs can fail only where the directory is missing, that is where no
\* cache file exists; nothing catches its exception.
MakedirsOutcomes == {"ok", "makedirs_fails"}

check_prerequisites(files, io) ==
    LET missing_files == {k \in Kinds : files[server_path(k)].st = "absent"} IN
    IF io = "makedirs_fails" /\ missing_files = Kinds THEN Raise("OSError")
    ELSE Return(missing_files = {})

(* ------------------------------- state --------------------------------- *)

VARIABLES
    fb,      \* a call of a fallback generator: its arguments, position and locals
    gen,     \* a call of a generate function of the pipeline, under its retry wrapper
    run,     \* the batch run main() of generate_content.py: position and locals
    disk,    \* what each path of the file system holds
    srv,     \* the server process: "uninitialized", "serving" or "exited"
    req,     \* the request the server is answering, with what it read
    resp,    \* the answer to req: what the handler returned or raised
    mem,     \* the objects of the server module that outlive a request
    again,   \* history: the server has answered a request before
    sav,     \* a call of save_to_json or save_json_file: position and locals
    clock    \* the wall clock datetime.now() reads

vars == <<fb, gen, run, disk, srv, req, resp, mem, again, sav, clock>>
serverVars == <<srv, req, resp, mem, again>>

NoBundle == [generated_by |-> "none"]

\* the arguments of a call of a generator
CallArgs ==
    [kind : {"mcqs", "flashcards"}, topic : Topics, num : Counts,
     duration : {"60 minutes"}, grade_level : {"Beginner"}]
    \cup
    [kind : {"lesson_plan"}, topic : Topics, num : {0},
     duration : Durations, grade_level : GradeLevels]

FbIdle ==
    [pc |-> "idle", module |-> "generate_content",
     args |-> [kind |-> "mcqs", topic |-> DEFAULT_TOPIC, num |-> 0,
               duration |-> "60 minutes", grade_level |-> "Beginner"],
     heap |-> <<>>, refs |-> <<>>, i |-> 1, result |-> NoBundle]

GenIdle ==
    [pc |-> "idle",
     args |-> [kind |-> "mcqs", topic |-> DEFAULT_TOPIC, num |-> 0,
               duration |-> "60 minutes", grade_level |-> "Beginner"],
     attempt |-> 0, history |-> <<>>, result |-> NoBundle]

RunIdle == [pc |-> "not_started", saved |-> {}, failed |-> {}]

\* no call of save under way; last is, for each path, what the last call
\* that returned had been given to write there, and whether it wrote it
NeverSaved == [data |-> NoBundle, wrote |-> FALSE, over |-> FALSE]
SavIdle ==
    [pc |-> "idle", module |-> "generate_content", filename |-> <<>>,
     data |-> NoBundle, base |-> EmptyText, over |-> FALSE,
     last |-> [p \in Paths |-> NeverSaved]]

NoRequest ==
    [surface |-> "none", name |-> "", arguments |-> EmptyDict, now |-> 0,
     files |-> <<>>, after_run |-> FALSE]
NoResponse == Return(PyNone)

EmptyDisk == [p \in Paths |-> Absent]

\* datetime.now() at a later moment
Tick ==
    /\ clock < MaxClock
    /\ clock' = clock + 1
    /\ UNCHANGED <<fb, gen, run, disk, serverVars, sav>>

(* ----------------- the fallback generators, step by step --------------- *)

fb_sample(kind) == IF kind = "mcqs" THEN sample_mcqs ELSE sample_flashcards

InitFallback ==
    /\ clock \in 0..MaxClock
    /\ gen = GenIdle
    /\ run = RunIdle
    /\ disk = EmptyDisk
    /\ srv = "uninitialized"
    /\ req = NoRequest
    /\ resp = NoResponse
    /\ mem = NoGlobals
    /\ again = FALSE
    /\ sav = SavIdle
    /\ \E a \in CallArgs, m \in Modules :
          fb = [FbIdle EXCEPT !.pc = "called", !.module = m, !.args = a]

\* the sample literal and the list cycled from it
FallbackBuild ==
    /\ fb.pc = "called"
    /\ fb.args.kind # "lesson_plan"
    /\ fb' = [fb EXCEPT !.pc = "loop",
                        !.heap = fb_sample(fb.args.kind),
                        !.refs = cycle_sample(fb_sample(fb.args.kind), fb.args.num),
                        !.i = 1]
    /\ UNCHANGED <<gen, run, disk, serverVars, sav, clock>>

\* one iteration of the loop that updates the ids
FallbackRenumber ==
    /\ fb.pc = "loop"
    /\ fb.i <= Len(fb.refs)
    /\ fb' = [fb EXCEPT !.heap = set_id(fb.heap, fb.refs, fb.i), !.i = fb.i + 1]
    /\ UNCHANGED <<gen, run, disk, serverVars, sav, clock>>

\* the return statement of the MCQ and flashcard generators
FallbackReturn ==
    /\ fb.pc = "loop"
    /\ fb.i > Len(fb.refs)
    /\ fb' = [fb EXCEPT
                !.pc = "returned",
                !.result =
                    IF fb.args.kind = "mcqs"
                    THEN fallback_mcqs_bundle(fb.args.topic, fb.args.num,
                             deref(fb.heap, fb.refs), clock, fallback_note(fb.module))
                    ELSE fallback_flashcards_bundle(fb.args.topic, fb.args.num,
                             deref(fb.heap, fb.refs), clock, fallback_note(fb.module))]
    /\ UNCHANGED <<gen, run, disk, serverVars, sav, clock>>

\* the lesson plan generator: one return statement
FallbackLessonPlan ==
    /\ fb.pc = "called"
    /\ fb.args.kind = "lesson_plan"
    /\ fb' = [fb EXCEPT
                !.pc = "returned",
                !.result = generate_fallback_lesson_plan(fb.args.topic, fb.args.duration,
                               fb.args.grade_level, clock, fallback_note(fb.module))]
    /\ UNCHANGED <<gen, run, disk, serverVars, sav, clock>>

NextFallback ==
    \/ FallbackBuild
    \/ FallbackRenumber
    \/ FallbackReturn
    \/ FallbackLessonPlan

SpecFallback == InitFallback /\ [][NextFallback]_vars

(* ------------------- the generate functions, step by step -------------- *)

\* a call of generate_mcqs, generate_lesson_plan or generate_flashcards
GenCall ==
    /\ gen.pc = "idle"
    /\ run.pc = "not_started"
    /\ \E a \in CallArgs :
          gen' = [GenIdle EXCEPT !.pc = "calling", !.args = a, !.attempt = 1]
    /\ UNCHANGED <<fb, run, disk, serverVars, sav, clock>>

\* one attempt: the external call ends as ext, the body handles it, and the
\* retry wrapper decides on the outcome of the body
Attempt(ext) ==
    /\ gen' = retry(gen, ext, generate_body(gen.args, ext, clock))
    /\ UNCHANGED <<fb, run, disk, serverVars, sav, clock>>

\* the external call returns a result within the timeout
ExtReturns ==
    /\ gen.pc = "calling"
    /\ \E k \in 0..MaxExt, c \in BOOLEAN :
          Attempt(ExtOk(ExtResult(gen.args.kind, k, c)))

\* the external call raises an exception
ExtRaises ==
    /\ gen.pc = "calling"
    /\ Attempt(ExtRaise)

\* the external call does not return within the timeout: asyncio.TimeoutError
ExtTimesOut ==
    /\ gen.pc = "calling"
    /\ Attempt(ExtTimeout)

InitPipeline ==
    /\ clock = 0
    /\ fb = FbIdle
    /\ gen = GenIdle
    /\ run = RunIdle
    /\ disk = EmptyDisk
    /\ srv = "uninitialized"
    /\ req = NoRequest
    /\ resp = NoResponse
    /\ mem = NoGlobals
    /\ again = FALSE
    /\ sav = SavIdle

NextPipeline ==
    \/ GenCall
    \/ ExtReturns
    \/ ExtRaises
    \/ ExtTimesOut
    \/ Tick

SpecPipeline == InitPipeline /\ [][NextPipeline]_vars

\* The timeout of asyncio.wait_for bounds every external call, so an attempt
\* under way always ends in one of the three ways.
FairSpecPipeline ==
    SpecPipeline /\ WF_vars(ExtReturns \/ ExtRaises \/ ExtTimesOut)

(* --------------------- the batch run of the pipeline ------------------- *)

\* main(): the count of the two generate calls that take one
MAIN_NUM == 10

\* the arguments main() passes for a kind, the rest being the defaults
main_args(kind) ==
    [kind |-> kind, topic |-> "Python Programming Basics",
     num |-> IF kind = "lesson_plan" THEN 0 ELSE MAIN_NUM,
     duration |-> "60 minutes", grade_level |-> "Beginner"]

\* the order of main()
next_kind(kind) ==
    CASE kind = "mcqs" -> "lesson_plan"
      [] kind = "lesson_plan" -> "flashcards"
      [] kind = "flashcards" -> "done"

\* asyncio.run(main())
MainStart ==
    /\ run.pc = "not_started"
    /\ gen.pc = "idle"
    /\ run' = [run EXCEPT !.pc = "mcqs"]
    /\ UNCHANGED <<fb, gen, disk, serverVars, sav, clock>>

\* mcqs = await generate_mcqs(num=10), and the like: the call
MainGenerate ==
    /\ run.pc \in Kinds
    /\ gen.pc = "idle"
    /\ gen' = [GenIdle EXCEPT !.pc = "calling", !.args = main_args(run.pc),
                              !.attempt = 1]
    /\ UNCHANGED <<fb, run, disk, serverVars, sav, clock>>

\* the call has returned: save_to_json(mcqs, MCQS_PATH), and the like.  A
\* call that raised would end main(), which handles nothing.
MainSave ==
    /\ run.pc \in Kinds
    /\ gen.pc \in {"done", "raised"}
    /\ \E io \in SaveOutcomes :
          IF gen.pc = "raised"
          THEN /\ run' = [run EXCEPT !.pc = "fatal"]
               /\ disk' = disk
          ELSE LET save == save_to_json(disk, gen.result, pipeline_path(run.pc), io)
               IN  /\ disk' = save.value
                   /\ run' = IF save.raised THEN [run EXCEPT !.pc = "fatal"]
                             ELSE [pc |-> next_kind(run.pc),
                                   saved |-> IF io = "ok" THEN run.saved \cup {run.pc}
                                             ELSE run.saved,
                                   failed |-> IF io = "ok" THEN run.failed
                                              ELSE run.failed \cup {run.pc}]
    /\ gen' = GenIdle
    /\ UNCHANGED <<fb, serverVars, sav, clock>>

(* ------------------------- the server, step by step -------------------- *)

\* the arguments a client may send: each key present or left out
OptionalArg(key, values) == {EmptyDict} \cup {[k \in {key} |-> x] : x \in values}

ToolArguments(name) ==
    CASE name = "generate_mcqs" ->
            {dict_update(t, n) : t \in OptionalArg("topic", Topics),
                                 n \in OptionalArg("num_questions", Counts)}
      [] name = "generate_flashcards" ->
            {dict_update(t, n) : t \in OptionalArg("topic", Topics),
                                 n \in OptionalArg("num_cards", Counts)}
      [] name = "generate_lesson_plan" ->
            {dict_update(t, dict_update(d, g)) :
                t \in OptionalArg("topic", Topics),
                d \in OptionalArg("duration", Durations),
                g \in OptionalArg("grade_level", GradeLevels)}
      [] OTHER -> {EmptyDict}

ToolNames == {"generate_mcqs", "generate_lesson_plan", "generate_flashcards"}
ResourceUris ==
    {"educhain://mcqs/python", "educhain://lesson-plan/python",
     "educhain://flashcards/python"}

\* main() of mcp_server.py up to server.run: the result of check_prerequisites
\* only chooses a log line; an exception of it ends main() and the process
ServerStart ==
    /\ srv = "uninitialized"
    /\ \E io \in MakedirsOutcomes :
          LET prerequisites_met == check_prerequisites(disk, io) IN
          srv' = IF prerequisites_met.raised THEN "exited" ELSE "serving"
    /\ UNCHANGED <<fb, gen, run, disk, req, resp, mem, again, sav, clock>>

\* a tools/call request
CallTool ==
    /\ srv = "serving"
    /\ req.surface = "none"
    /\ \E name \in ToolNames \cup {"generate_quiz"} :
          \E arguments \in ToolArguments(name) :
             LET call == call_tool(mem, disk, name, arguments, clock) IN
             /\ req' = [surface |-> "tool", name |-> name, arguments |-> arguments,
                        now |-> clock, files |-> disk, after_run |-> run.pc = "done"]
             /\ resp' = call.resp
             /\ mem' = call.mem
             /\ disk' = call.files
    /\ UNCHANGED <<fb, gen, run, srv, again, sav, clock>>

\* a resources/read request
ReadResource ==
    /\ srv = "serving"
    /\ req.surface = "none"
    /\ \E uri \in ResourceUris \cup {"educhain://quiz/python"} :
          LET read == read_resource(mem, disk, uri) IN
          /\ req' = [surface |-> "resource", name |-> uri, arguments |-> EmptyDict,
                     now |-> clock, files |-> disk, after_run |-> run.pc = "done"]
          /\ resp' = read.resp
          /\ mem' = read.mem
          /\ disk' = read.files
    /\ UNCHANGED <<fb, gen, run, srv, again, sav, clock>>

\* the host loop sends the answer and takes the next request
Deliver ==
    /\ req.surface # "none"
    /\ req' = NoRequest
    /\ resp' = NoResponse
    /\ again' = TRUE
    /\ UNCHANGED <<fb, gen, run, disk, srv, mem, sav, clock>>

\* What a cache file of a kind may hold when the server starts: nothing, a
\* bundle the pipeline saved, or anything else a file can hold.
saved_bundle(kind) ==
    generate_body(main_args(kind), ExtOk(ExtResult(kind, MaxExt, TRUE)), 0).value
saved_fallback_bundle(kind) ==
    generate_body(main_args(kind), ExtRaise, 0).value

CacheFiles(kind) ==
    << Absent,
       Unreadable,
       File(NotJson),
       File(json_dumps(PyDict(saved_bundle(kind)))),
       File(json_dumps(PyDict(saved_fallback_bundle(kind)))),
       File(json_dumps(PyDict(EmptyDict))),
       File(json_dumps(PyList(<<"text">>))),
       File(json_dumps(PyStr(<<"t", "e", "x", "t">>))),
       File(json_dumps(PyStr(<<"n", "o", " ">> \o ERROR_KEY))),
       File(json_dumps(PyInt(5))) >>

InitServer ==
    /\ clock = 0
    /\ fb = FbIdle
    /\ gen = GenIdle
    /\ run = RunIdle
    /\ srv = "uninitialized"
    /\ req = NoRequest
    /\ resp = NoResponse
    /\ mem = NoGlobals
    /\ again = FALSE
    /\ sav = SavIdle
    /\ \E m \in DOMAIN CacheFiles("mcqs"), l \in DOMAIN CacheFiles("lesson_plan"),
          f \in DOMAIN CacheFiles("flashcards") :
          disk = [p \in Paths |->
                    CASE p = server_path("mcqs") -> CacheFiles("mcqs")[m]
                      [] p = server_path("lesson_plan") -> CacheFiles("lesson_plan")[l]
                      [] p = server_path("flashcards") -> CacheFiles("flashcards")[f]
                      [] OTHER -> Absent]

NextServer ==
    \/ ServerStart
    \/ CallTool
    \/ ReadResource
    \/ Deliver
    \/ Tick

SpecServer == InitServer /\ [][NextServer]_vars

(* ------------- a cache file under save, and the server reading it ------ *)

\* the bundles a call of save is given for a kind
SaveData(kind) == << saved_bundle(kind), saved_fallback_bundle(kind) >>

path_kind(path) == CHOOSE k \in Kinds : path \in {server_path(k), pipeline_path(k)}

\* save_to_json(data, filename) or save_json_file(data, file_path) is called
SaveCall ==
    /\ sav.pc = "idle"
    /\ \E m \in Modules, i \in DOMAIN SaveData(path_kind(sav.filename)) :
          sav' = [sav EXCEPT !.pc = "called", !.module = m,
                             !.data = SaveData(path_kind(sav.filename))[i]]
    /\ UNCHANGED <<fb, gen, run, disk, serverVars, clock>>

\* os.makedirs and open(filename, 'w') succeed
SaveOpen ==
    /\ sav.pc = "called"
    /\ disk' = open_w(disk, sav.filename)
    /\ sav' = [sav EXCEPT !.pc = "opened",
                          !.base = disk'[sav.filename].text,
                          !.over = (disk[sav.filename].st = "file"
                                    /\ disk[sav.filename].text.json)]
    /\ UNCHANGED <<fb, gen, run, serverVars, clock>>

\* json.dump under way: a full buffer reaches the file
SaveFlush ==
    /\ sav.pc = "opened"
    /\ disk' = file_write(disk, sav.filename, sav.base, json_prefix(PyDict(sav.data)))
    /\ sav' = [sav EXCEPT !.pc = "flushed"]
    /\ UNCHANGED <<fb, gen, run, serverVars, clock>>

\* json.dump has returned and the with statement closes the file
SaveClose ==
    /\ sav.pc \in {"opened", "flushed"}
    /\ disk' = file_write(disk, sav.filename, sav.base, json_dumps(PyDict(sav.data)))
    /\ sav' = [sav EXCEPT !.pc = "idle", !.data = NoBundle, !.base = EmptyText,
                          !.over = FALSE,
                          !.last[sav.filename] =
                              [data |-> sav.data, wrote |-> TRUE, over |-> sav.over]]
    /\ UNCHANGED <<fb, gen, run, serverVars, clock>>

\* makedirs, open or json.dump raises: except Exception, the file stays as it is
SaveFails ==
    /\ sav.pc \in {"called", "opened", "flushed"}
    /\ sav' = [sav EXCEPT !.pc = "idle", !.data = NoBundle, !.base = EmptyText,
                          !.over = FALSE,
                          !.last[sav.filename] =
                              [data |-> sav.data, wrote |-> FALSE, over |-> FALSE]]
    /\ UNCHANGED <<fb, gen, run, disk, serverVars, clock>>

\* the calls of save write to the cache file the server reads for a kind
InitCache ==
    /\ clock = 0
    /\ fb = FbIdle
    /\ gen = GenIdle
    /\ run = RunIdle
    /\ disk = EmptyDisk
    /\ srv = "uninitialized"
    /\ req = NoRequest
    /\ resp = NoResponse
    /\ mem = NoGlobals
    /\ again = FALSE
    /\ \E k \in Kinds : sav = [SavIdle EXCEPT !.filename = server_path(k)]

NextCache ==
    \/ SaveCall
    \/ SaveOpen
    \/ SaveFlush
    \/ SaveClose
    \/ SaveFails
    \/ ServerStart
    \/ CallTool
    \/ ReadResource
    \/ Deliver

SpecCache == InitCache /\ [][NextCache]_vars

(* ------------------------- pipeline and server ------------------------- *)

Init ==
    /\ clock = 0
    /\ fb = FbIdle
    /\ gen = GenIdle
    /\ run = RunIdle
    /\ disk = EmptyDisk
    /\ srv = "uninitialized"
    /\ req = NoRequest
    /\ resp = NoResponse
    /\ mem = NoGlobals
    /\ again = FALSE
    /\ sav = SavIdle

Next ==
    \/ MainStart
    \/ MainGenerate
    \/ ExtReturns
    \/ ExtRaises
    \/ ExtTimesOut
    \/ MainSave
    \/ ServerStart
    \/ CallTool
    \/ ReadResource
    \/ Deliver

Spec == Init /\ [][Next]_vars

\* The batch run alone.  main() is sequential code: each of its steps is
\* taken once it can be, the external call being bounded by its timeout.
NextBatch ==
    \/ MainStart
    \/ MainGenerate
    \/ ExtReturns
    \/ ExtRaises
    \/ ExtTimesOut
    \/ MainSave

SpecBatch == Init /\ [][NextBatch]_vars

FairSpecBatch ==
    SpecBatch
    /\ WF_vars(MainGenerate)
    /\ WF_vars(ExtReturns \/ ExtRaises \/ ExtTimesOut)
    /\ WF_vars(MainSave)

(* ------------------------------- claims -------------------------------- *)

\* the item list of an MCQ or flashcard bundle
items(kind, bundle) == IF kind = "mcqs" THEN bundle.questions ELSE bundle.flashcards

\* the fallback bundle the pipeline builds for the arguments a
pipeline_fallback(a, now) ==
    CASE a.kind = "mcqs" -> generate_fallback_mcqs(a.topic, a.num, now, NOTE_PIPELINE)
      [] a.kind = "flashcards" ->
            generate_fallback_flashcards(a.topic, a.num, now, NOTE_PIPELINE)
      [] a.kind = "lesson_plan" ->
            generate_fallback_lesson_plan(a.topic, a.duration, a.grade_level, now,
                NOTE_PIPELINE)

\* the kind a tool or a resource serves
tool_kind(name) ==
    CASE name = "generate_mcqs" -> "mcqs"
      [] name = "generate_lesson_plan" -> "lesson_plan"
      [] name = "generate_flashcards" -> "flashcards"
      [] OTHER -> "none"
resource_kind(uri) ==
    CASE uri = "educhain://mcqs/python" -> "mcqs"
      [] uri = "educhain://lesson-plan/python" -> "lesson_plan"
      [] uri = "educhain://flashcards/python" -> "flashcards"
      [] OTHER -> "none"
req_kind == IF req.surface = "tool" THEN tool_kind(req.name) ELSE resource_kind(req.name)

\* the key of the item list of a bundle of a kind
items_key(kind) ==
    CASE kind = "mcqs" -> "questions"
      [] kind = "lesson_plan" -> "lesson_structure"
      [] kind = "flashcards" -> "flashcards"

\* the document an answer carries, the handler having returned
answer_doc ==
    IF req.surface = "tool" THEN resp.value[1].text.doc ELSE resp.value.doc

\* the topic of a tool request
req_topic == dict_get(req.arguments, "topic", DEFAULT_TOPIC)

\* the cache file the server read for the request
req_file == req.files[server_path(req_kind)]

WellFormedBundle(kind, doc) ==
    /\ doc.ty = "dict"
    /\ {"topic", items_key(kind), "generated_at", "generated_by"} \subseteq DOMAIN doc.v
    /\ doc.v.generated_by \in {PRIMARY, FALLBACK}

ErrorDescriptor(doc) == doc.ty = "dict" /\ "error" \in DOMAIN doc.v

\* C1: for every count >= 1 the fallback MCQ generator returns exactly count
\* items whose ids are 1..count in order, all unique, each with exactly 4
\* options and a correct_answer that is one of them.
C1_FallbackMcqs ==
    (fb.pc = "returned" /\ fb.args.kind = "mcqs" /\ fb.args.num >= 1) =>
        LET qs == fb.result.questions IN
        /\ Len(qs) = fb.args.num
        /\ \A i \in 1..Len(qs) : qs[i].id = i
        /\ \A i, j \in 1..Len(qs) : i # j => qs[i].id # qs[j].id
        /\ \A i \in 1..Len(qs) :
              /\ Len(qs[i].options) = 4
              /\ qs[i].correct_answer \in Range(qs[i].options)

\* C2: when the external call raises, generate retries it, up to 3 attempts in
\* total, and returns the fallback bundle only after the call has raised on
\* every one of the 3 attempts; a later attempt that succeeds gives PRIMARY.
C2_RetriesBeforeFallback ==
    (gen.pc = "done" /\ "timeout" \notin Range(gen.history)) =>
        /\ gen.result.generated_by = FALLBACK =>
              gen.history = <<"raise", "raise", "raise">>
        /\ gen.history[Len(gen.history)] = "ok" => gen.result.generated_by = PRIMARY

\* C3: the cache entry the pipeline writes for a kind is the one the server
\* reads for it: after the batch run has ended with the kind saved, a resource
\* read returns the saved bundle, and a default-topic operation returns its
\* items and provenance, not a file-not-found descriptor or fallback content.
C3_ServerReadsPipelineCache ==
    (req.surface # "none" /\ req.after_run /\ req_kind \in run.saved) =>
        LET saved == disk[pipeline_path(req_kind)].text IN
        /\ req.surface = "resource" => resp = Return(saved)
        /\ (req.surface = "tool" /\ req_topic = DEFAULT_TOPIC) =>
              /\ ~resp.raised
              /\ answer_doc.v[items_key(req_kind)] = saved.doc.v[items_key(req_kind)]
              /\ answer_doc.v.generated_by = saved.doc.v.generated_by

\* C4: every MCQ or flashcard bundle generate returns, PRIMARY or FALLBACK,
\* holds exactly as many items as the requested count, also when the external
\* capability returns fewer items than requested.
C4_CountDelivered ==
    (gen.pc = "done" /\ gen.args.kind \in {"mcqs", "flashcards"} /\ gen.args.num >= 1) =>
        Len(items(gen.args.kind, gen.result)) = gen.args.num

\* C5: whatever a cache file holds (nothing, text that is no JSON, or JSON
\* that is no bundle object), every operation call returns a well-formed
\* bundle and every resource read a well-formed bundle or error descriptor;
\* no request ends in an unhandled fault.
C5_NoUnhandledFault ==
    (req.surface # "none" /\ req_kind # "none") =>
        /\ ~resp.raised
        /\ req.surface = "tool" => WellFormedBundle(req_kind, answer_doc)
        /\ req.surface = "resource" =>
              \/ WellFormedBundle(req_kind, answer_doc)
              \/ ErrorDescriptor(answer_doc)

\* C6: generate never raises, whatever the external capability does (returns,
\* raises, or does not return within the timeout): it always ends with a
\* bundle tagged PRIMARY or FALLBACK, and the tag is PRIMARY only when the
\* external call returned within the timeout.
C6_GenerateNeverRaises ==
    /\ [](gen.pc # "raised")
    /\ [](gen.pc = "done" =>
            /\ gen.result.generated_by \in {PRIMARY, FALLBACK}
            /\ gen.result.generated_by = PRIMARY =>
                  gen.history[Len(gen.history)] = "ok")
    /\ (gen.pc = "calling" ~> gen.pc = "done")

\* a call that ended with the fallback bundle after the external call raised
C6_Witness ==
    /\ gen.pc = "done"
    /\ gen.history = <<"raise">>
    /\ gen.result.generated_by = FALLBACK

\* C7: when the external call does not return within the timeout, generate
\* returns the fallback bundle after that single attempt, with no further
\* external call, and the bundle is the fallback content alone.
C7_TimeoutFallsBackAtOnce ==
    "timeout" \in Range(gen.history) =>
        /\ gen.pc = "done"
        /\ gen.history = <<"timeout">>
        /\ gen.attempt = 1
        /\ gen.result.generated_by = FALLBACK
        /\ [gen.result EXCEPT !.generated_at = 0] = pipeline_fallback(gen.args, 0)

\* a call of generate_mcqs for 7 questions that ended on a timeout
C7_Witness ==
    /\ gen.pc = "done"
    /\ gen.history = <<"timeout">>
    /\ gen.args.kind = "mcqs"
    /\ gen.args.num = MaxCount
    /\ Len(gen.result.questions) = MaxCount

\* C8: with no MCQ cache file, the default-topic generate_mcqs operation with
\* num_questions = n returns a bundle of exactly n items with ids 1..n and
\* generated_by = FALLBACK.
C8_CacheMissFallback ==
    (/\ req.surface = "tool"
     /\ req.name = "generate_mcqs"
     /\ req_topic = DEFAULT_TOPIC
     /\ req_file.st = "absent") =>
        LET n == dict_get(req.arguments, "num_questions", DEFAULT_NUM_QUESTIONS) IN
        /\ ~resp.raised
        /\ answer_doc.ty = "dict"
        /\ answer_doc.v.generated_by = FALLBACK
        /\ Len(answer_doc.v.questions) = n
        /\ \A i \in 1..n : answer_doc.v.questions[i].id = i

\* the cache file of the request holds a bundle
CachedBundle ==
    /\ req_kind # "none"
    /\ req_file.st = "file"
    /\ req_file.text.json
    /\ req_file.text.doc.ty = "dict"
    /\ "generated_by" \in DOMAIN req_file.text.doc.v

\* a default-topic operation whose cache file holds a bundle: a cache hit
CacheHit ==
    /\ req.surface = "tool"
    /\ req_kind # "none"
    /\ req_topic = DEFAULT_TOPIC
    /\ req_file.st = "file"
    /\ req_file.text.json
    /\ req_file.text.doc.ty = "dict"
    /\ DOMAIN req_file.text.doc.v # {}
    /\ "error" \notin DOMAIN req_file.text.doc.v

\* the keys an operation of a kind patches, with the values the caller gave
patched_keys(kind) ==
    IF kind = "lesson_plan" THEN {"duration", "grade_level", "generated_at"}
    ELSE {"requested_count", "generated_at"}
requested(key) ==
    CASE key = "generated_at" -> req.now
      [] key = "duration" -> dict_get(req.arguments, "duration", "60 minutes")
      [] key = "grade_level" -> dict_get(req.arguments, "grade_level", "Beginner")
      [] key = "requested_count" ->
            IF req_kind = "mcqs"
            THEN dict_get(req.arguments, "num_questions", DEFAULT_NUM_QUESTIONS)
            ELSE dict_get(req.arguments, "num_cards", DEFAULT_NUM_CARDS)

\* C9: on a cache hit for the default topic an operation patches metadata
\* only: the cached item list is returned as it is, requested_count (duration
\* and grade_level for a lesson plan) is set to the arguments of the caller,
\* generated_at is the time of the request, and every other cached field is
\* unchanged.
C9_CacheHitPatchesMetadata ==
    CacheHit =>
        LET cached == req_file.text.doc.v IN
        /\ ~resp.raised
        /\ answer_doc.ty = "dict"
        /\ DOMAIN answer_doc.v = (DOMAIN cached) \cup patched_keys(req_kind)
        /\ \A key \in patched_keys(req_kind) : answer_doc.v[key] = requested(key)
        /\ \A key \in (DOMAIN cached) \ patched_keys(req_kind) :
              answer_doc.v[key] = cached[key]

\* generate_mcqs for fewer questions than the cache holds, at a later time
\* than the cached bundle was generated
C9_Witness ==
    /\ CacheHit
    /\ req.name = "generate_mcqs"
    /\ "num_questions" \in DOMAIN req.arguments
    /\ req.arguments.num_questions < Len(req_file.text.doc.v.questions)
    /\ req_file.text.doc.v.generated_by = PRIMARY
    /\ req.now > req_file.text.doc.v.generated_at
    /\ ~resp.raised
    /\ Len(answer_doc.v.questions) = Len(req_file.text.doc.v.questions)

\* C10: for every count the fallback flashcard generator returns exactly count
\* items with ids 1..count, item i carrying the front, back and category of
\* base sample element ((i-1) mod 3)+1.
C10_FallbackFlashcards ==
    (fb.pc = "returned" /\ fb.args.kind = "flashcards") =>
        LET cs == fb.result.flashcards IN
        /\ Len(cs) = fb.args.num
        /\ \A i \in 1..Len(cs) :
              LET base == sample_flashcards[((i - 1) % 3) + 1] IN
              /\ cs[i].id = i
              /\ cs[i].front = base.front
              /\ cs[i].back = base.back
              /\ cs[i].category = base.category

\* the fallback bundle the server builds for a tool request
server_fallback(name, arguments, now) ==
    LET topic == dict_get(arguments, "topic", DEFAULT_TOPIC) IN
    CASE name = "generate_mcqs" ->
            generate_fallback_mcqs(topic,
                dict_get(arguments, "num_questions", DEFAULT_NUM_QUESTIONS), now,
                NOTE_SERVER)
      [] name = "generate_flashcards" ->
            generate_fallback_flashcards(topic,
                dict_get(arguments, "num_cards", DEFAULT_NUM_CARDS), now, NOTE_SERVER)
      [] name = "generate_lesson_plan" ->
            generate_fallback_lesson_plan(topic,
                dict_get(arguments, "duration", "60 minutes"),
                dict_get(arguments, "grade_level", "Beginner"), now, NOTE_SERVER)

\* C11: for a topic other than the default one every operation returns the
\* fallback bundle of the server for the requested topic and parameters,
\* whatever the cache file holds: the cache is not read and nothing of it
\* shows in the answer.
C11_OtherTopicFallback ==
    (req.surface = "tool" /\ req_kind # "none" /\ req_topic # DEFAULT_TOPIC) =>
        /\ ~resp.raised
        /\ answer_doc = PyDict(server_fallback(req.name, req.arguments, req.now))
        /\ answer_doc.v.generated_by = FALLBACK
        /\ answer_doc.v.topic = req.arguments.topic
        /\ req_kind = "mcqs" =>
              answer_doc.v.total_questions =
                  dict_get(req.arguments, "num_questions", DEFAULT_NUM_QUESTIONS)
        /\ req_kind = "flashcards" =>
              answer_doc.v.count = dict_get(req.arguments, "num_cards", DEFAULT_NUM_CARDS)
        /\ req_kind = "lesson_plan" =>
              /\ answer_doc.v.duration = dict_get(req.arguments, "duration", "60 minutes")
              /\ answer_doc.v.grade_level =
                    dict_get(req.arguments, "grade_level", "Beginner")

\* generate_lesson_plan for another topic while the cache holds a lesson plan
\* the pipeline generated, which the default topic would have been served
C11_Witness ==
    /\ req.surface = "tool"
    /\ req.name = "generate_lesson_plan"
    /\ req_topic = OTHER_TOPIC
    /\ CachedBundle
    /\ req_file.text.doc.v.generated_by = PRIMARY
    /\ "duration" \in DOMAIN req.arguments
    /\ ~resp.raised
    /\ answer_doc.v.generated_by = FALLBACK

\* C12: a resource read returns the document the cache file holds as it is,
\* with no requested_count added and generated_at as cached; with no cache
\* file it returns the file-not-found error descriptor and no fallback bundle.
C12_ResourceReadsCacheAsIs ==
    (req.surface = "resource" /\ req_kind # "none") =>
        /\ ~resp.raised
        /\ (req_file.st = "file" /\ req_file.text.json) =>
              /\ resp.value = req_file.text
              /\ answer_doc = req_file.text.doc
        /\ req_file.st = "absent" =>
              /\ ErrorDescriptor(answer_doc)
              /\ answer_doc.v.error = <<"File not found: ", server_path(req_kind)>>
              /\ "generated_by" \notin DOMAIN answer_doc.v

\* a read of the MCQ resource, later than the cached bundle was generated
C12_Witness ==
    /\ req.surface = "resource"
    /\ req.name = "educhain://mcqs/python"
    /\ CachedBundle
    /\ req_file.text.doc.v.generated_by = PRIMARY
    /\ req.now > req_file.text.doc.v.generated_at
    /\ ~resp.raised
    /\ answer_doc.v.generated_at = req_file.text.doc.v.generated_at
    /\ "requested_count" \notin DOMAIN answer_doc.v

\* C13: loading a path after a save to it has returned gives the bundle that
\* was saved, with its topic and its item list in order, also where the path
\* held another bundle before: the last save is the one that counts.
C13_SaveLoadRoundTrip ==
    LET last == sav.last[sav.filename]
        kind == path_kind(sav.filename)
    IN  (sav.pc = "idle" /\ last.wrote) =>
            LET loaded == load_json_file(disk, sav.filename) IN
            /\ loaded = PyDict(last.data)
            /\ loaded.v.topic = last.data.topic
            /\ loaded.v[items_key(kind)] = last.data[items_key(kind)]
            /\ (req.surface = "resource" /\ req_kind = kind /\ req.files = disk) =>
                  answer_doc = PyDict(last.data)

\* the fallback bundle saved over another bundle, then read by the server
C13_Witness ==
    /\ sav.pc = "idle"
    /\ sav.last[sav.filename].wrote
    /\ sav.last[sav.filename].over
    /\ sav.last[sav.filename].data.generated_by = FALLBACK
    /\ req.surface = "resource"
    /\ req_kind = path_kind(sav.filename)
    /\ req.files = disk
    /\ answer_doc.v.generated_by = FALLBACK

\* C14: load never raises.  Where the path holds no file it returns an error
\* descriptor that says file not found, where the file holds text that is no
\* JSON it returns one that says invalid format, and where the file cannot be
\* read one that says so; the files are as they were.
C14_LoadNeverRaises ==
    (req.surface = "resource" /\ req_kind # "none") =>
        /\ ~resp.raised
        /\ req_file.st = "absent" =>
              /\ ErrorDescriptor(answer_doc)
              /\ answer_doc.v.error = <<"File not found: ", server_path(req_kind)>>
        /\ (req_file.st = "file" /\ ~req_file.text.json) =>
              /\ ErrorDescriptor(answer_doc)
              /\ answer_doc.v.error = <<"Invalid JSON format in ", server_path(req_kind)>>
        /\ req_file.st = "unreadable" => ErrorDescriptor(answer_doc)
        /\ disk = req.files

\* a read of a cache file whose text is no JSON
C14_Witness ==
    /\ req.surface = "resource"
    /\ req_kind # "none"
    /\ req_file.st = "file"
    /\ ~req_file.text.json
    /\ ~resp.raised
    /\ answer_doc.v.details = "JSONDecodeError"
    /\ disk[server_path(req_kind)] = File(NotJson)

\* C15: the server is either uninitialized or serving; the prerequisite check
\* leads to serving whether or not the cache files exist, a missing cache
\* never ending the start; and a serving server without a cache file answers
\* a default-topic operation with fallback content.
C15_StartupAlwaysServes ==
    /\ srv \in {"uninitialized", "serving"}
    /\ (/\ req.surface = "tool"
        /\ req_kind # "none"
        /\ req_topic = DEFAULT_TOPIC
        /\ req_file.st = "absent") =>
           /\ srv = "serving"
           /\ ~resp.raised
           /\ answer_doc.v.generated_by = FALLBACK

\* the kinds main() has dealt with when it stands at pc
kinds_before(pc) ==
    CASE pc = "lesson_plan" -> {"mcqs"}
      [] pc = "flashcards" -> {"mcqs", "lesson_plan"}
      [] pc = "done" -> Kinds
      [] OTHER -> {}

\* C16: a save that fails to write is caught: the batch run never ends on it,
\* every kind before the position of the run has been either written or
\* given up, in the order MCQs, lesson plan, flashcards, and a run that has
\* started goes on to its end, where all three kinds have been dealt with.
C16_SaveFailureDoesNotAbort ==
    /\ [](run.pc # "fatal")
    /\ [](/\ run.saved \cup run.failed = kinds_before(run.pc)
          /\ run.saved \cap run.failed = {}
          /\ \A k \in run.saved : disk[pipeline_path(k)].st = "file")
    /\ (run.pc \in Kinds ~> run.pc = "done")

\* the run at its end, the MCQ file not written, the two later kinds written
C16_Witness ==
    /\ run.pc = "done"
    /\ run.failed = {"mcqs"}
    /\ run.saved = {"lesson_plan", "flashcards"}
    /\ disk[pipeline_path("flashcards")].text.json

\* C17: the server never writes the cache: no step of the server, tool call
\* or resource read, cache hit or miss, changes what any file holds, so the
\* metadata patched into an answer stays out of the cache file.
C17_ServerNeverWrites == [][disk' = disk]_vars

\* a cache hit answered with a requested_count the cache file does not hold
C17_Witness ==
    /\ CacheHit
    /\ req_kind = "mcqs"
    /\ ~resp.raised
    /\ "requested_count" \in DOMAIN answer_doc.v
    /\ "requested_count" \notin DOMAIN disk[server_path(req_kind)].text.doc.v
    /\ answer_doc.v.generated_at # disk[server_path(req_kind)].text.doc.v.generated_at

\* a tool answer with its generated_at set to a fixed time
at_time_zero(answer) ==
    IF answer.raised THEN answer
    ELSE Return(<<[type |-> "text",
                   text |-> json_dumps(PyDict([answer.value[1].text.doc.v
                                                  EXCEPT !.generated_at = 0]))]>>)

\* C18: nothing but the cache files crosses requests: the module-level
\* objects stay as they were at import, and the answer to a request, its
\* generated_at set aside, is the answer the handler gives to the same
\* arguments on the same files when it is the first request of the process.
C18_NoStateAcrossRequests ==
    /\ mem = NoGlobals
    /\ (req.surface = "tool" /\ req_kind # "none") =>
          LET first == handle_call_tool(req.files, req.name, req.arguments, 0) IN
          /\ resp.raised = first.raised
          /\ at_time_zero(resp) = at_time_zero(first)
    /\ (req.surface = "resource" /\ req_kind # "none") =>
          resp = handle_read_resource(req.files, req.name)

\* a cache hit answered after the server has answered an earlier request
C18_Witness ==
    /\ again
    /\ CacheHit
    /\ ~resp.raised
    /\ req.now > 0
    /\ answer_doc.v.generated_at = req.now

\* the document doc is the bundle d
SameDoc(doc, d) == doc.ty = "dict" /\ DOMAIN doc.v = DOMAIN d /\ doc.v = d

\* the bundle d with the keys patched that the operation of the request patches
patched(d) ==
    [key \in DOMAIN d \cup patched_keys(req_kind) |->
        IF key \in patched_keys(req_kind) THEN requested(key) ELSE d[key]]

\* C19: while save overwrites the cache file (truncate, then write), every
\* resource read returns a complete bundle given to save, the old one or the
\* new one, or an error descriptor, and every default-topic operation returns
\* such a bundle patched or the fallback content; no answer is made of a
\* file written in part, and no request ends in a fault.
C19_NoPartialRead ==
    (req.surface # "none" /\ req_kind = path_kind(sav.filename)) =>
        LET bundles == SaveData(req_kind) IN
        /\ ~resp.raised
        /\ req.surface = "resource" =>
              \/ ErrorDescriptor(answer_doc)
              \/ \E i \in DOMAIN bundles : SameDoc(answer_doc, bundles[i])
        /\ (req.surface = "tool" /\ req_topic = DEFAULT_TOPIC) =>
              \/ SameDoc(answer_doc, server_fallback(req.name, req.arguments, req.now))
              \/ \E i \in DOMAIN bundles : SameDoc(answer_doc, patched(bundles[i]))

\* a resource read while a save that overwrites a bundle has flushed a part
\* of the new text to the file
C19_Witness ==
    /\ sav.pc = "flushed"
    /\ sav.over
    /\ req.surface = "resource"
    /\ req_kind = path_kind(sav.filename)
    /\ req.files = disk
    /\ disk[sav.filename] = File(json_prefix(PyDict(sav.data)))
    /\ ErrorDescriptor(answer_doc)

====
